---- MODULE Spec2Model ----
(***************************************************************************)
(* State-machine model of the chat monitoring pipeline: the dedup ledger   *)
(* and run log of DatabaseManager, ContentAnalyzer.process_chat, and the   *)
(* scan cycle ScanJob.run with its scheduled and manual triggers.          *)
(*                                                                         *)
(* Every cycle is an asyncio task.  Tasks interleave only at await points, *)
(* so one action of the model is the code between two awaits together with *)
(* the awaited call that ends it.                                          *)
(***************************************************************************)
EXTENDS Integers, Sequences, FiniteSets, TLC

\* ------------------------------------------------------------------ bounds

\* Number of scan cycles (ScanJob.run tasks) ever started.
MaxRuns == 2
\* Message ids that exist in a chat are 1..MaxMsgId.
MaxMsgId == 3
\* Chunk capacity passed to _chunk_messages (50 in analyzer.py:113, scaled).
ChunkSize == 2
\* Length of the id lists handed to the dedup store in SpecDedup.
MaxIdsLen == 3
\* Largest chunk capacity handed to _chunk_messages in SpecChunk.
MaxCapacity == 4
\* Telegram user ids are 1..MaxUserId in SpecWhitelist and SpecAggregate.
MaxUserId == 3
\* Length of the live roster and of the whitelist in SpecWhitelist.
MaxRoster == 2
\* Number of chat results handed to aggregate_results in SpecAggregate.
MaxResults == 2
\* Incident ids are 1..MaxIncidentId in SpecIncidents.
MaxIncidentId == 2
\* Firings of the health-check job followed in SpecHealth.
MaxHealthRuns == 2
\* Incident entries in a classifier reply in SpecResponse.
MaxEntries == 2

\* ------------------------------------------------------- configuration

\* settings.aiogram.admin_id and one other Telegram user.
AdminId == 1
Users == {1, 2}

\* ScanJob.chat_ids as built in main from the monitored chats.
chat_ids == <<1, 2>>

Runs == 1..MaxRuns
\* An optional value is None or <<value>>.
None == <<>>
MsgIds == 1..MaxMsgId
NoLog == 0

\* ------------------------------------------------------------- helpers

Range(s) == {s[i] : i \in DOMAIN s}

Min(a, b) == IF a < b THEN a ELSE b

RECURSIVE SumSeq(_)
SumSeq(s) == IF s = <<>> THEN 0 ELSE Head(s) + SumSeq(Tail(s))

RECURSIVE Concat(_)
Concat(ss) == IF ss = <<>> THEN <<>> ELSE Head(ss) \o Concat(Tail(ss))

\* The ids of `ids` as a list from the newest (largest) to the oldest, the
\* order in which iter_messages yields them.
RECURSIVE Descending(_)
Descending(ids) ==
    IF ids = {} THEN <<>>
    ELSE LET m == CHOOSE x \in ids : \A y \in ids : y <= x
         IN <<m>> \o Descending(ids \ {m})

\* ------------------------------------------------- captured messages

\* What the platform holds within the lookback window.  Chat 1 holds the
\* messages 1..MaxMsgId, of which message 2 is a voice note without text and
\* the others carry text; every other chat holds one media message without
\* text or voice (collect_messages stores text "" for it).
MsgIdsOf(chat_id) == IF chat_id = 1 THEN MsgIds ELSE {1}
HasVoice(chat_id, mid) == chat_id = 1 /\ mid = 2
HasText(chat_id, mid) == chat_id = 1 /\ mid # 2
\* The messages the classifier reports: every message of chat 1, the voice
\* note included, and no other.
Suspicious(chat_id, mid) == chat_id = 1

\* The MessageData collect_messages builds; voice_path is never set by it.
MessageData(chat_id, mid) ==
    [chat_id |-> chat_id, message_id |-> mid, sender_id |-> 10 * chat_id + mid,
     text |-> HasText(chat_id, mid), has_voice |-> HasVoice(chat_id, mid),
     voice_path |-> FALSE, voice_transcription |-> FALSE]

\* MessageHistoryCollector.collect_messages: the messages of the lookback
\* window, newest first.
CollectMessages(chat_id) ==
    LET l == Descending(MsgIdsOf(chat_id))
    IN [i \in DOMAIN l |-> MessageData(chat_id, l[i])]

\* ------------------------------------------------- DatabaseManager

\* Variant: the SELECT without its chat_id condition.
FilterNewMessagesAnyChat(P, chat_id, message_ids) ==
    IF message_ids = <<>> THEN <<>>
    ELSE LET processed == {mid \in Range(message_ids) : \E c \in Range(chat_ids) : <<c, mid>> \in P}
         IN SelectSeq(message_ids, LAMBDA mid : mid \notin processed)

\* filter_new_messages: the ids of message_ids without a row in
\* processed_ids for chat_id, in input order.
FilterNewMessages(P, chat_id, message_ids) ==
    IF message_ids = <<>> THEN <<>>
    ELSE LET processed == {mid \in Range(message_ids) : <<chat_id, mid>> \in P}
         IN SelectSeq(message_ids, LAMBDA mid : mid \notin processed)

\* mark_as_processed: INSERT OR IGNORE of every id, then commit.
MarkAsProcessed(P, chat_id, message_ids) ==
    IF message_ids = <<>> THEN P
    ELSE P \cup {<<chat_id, message_ids[i]>> : i \in DOMAIN message_ids}

\* create_scan_log: a new row with status 'running'; returns lastrowid.
NewScanLog ==
    [status |-> "running", end_time |-> FALSE, chats_scanned |-> 0,
     messages_processed |-> 0, voices_transcribed |-> 0, incidents_found |-> 0]

CreateScanLog(logs) == Append(logs, NewScanLog)

\* update_scan_log: UPDATE ... WHERE id = log_id, then commit.
UpdateScanLog(logs, id, stats, status) ==
    [logs EXCEPT ![id] =
        [status |-> status, end_time |-> TRUE,
         chats_scanned |-> stats.chats_scanned,
         messages_processed |-> stats.messages_processed,
         voices_transcribed |-> stats.voices_transcribed,
         incidents_found |-> stats.incidents_found]]

\* ------------------------------------------------- ContentAnalyzer

\* Variant: range(0, len(messages) - size + 1, size), which loses a short last chunk.
ChunkMessagesFullOnly(messages, size) ==
    [k \in 1..(Len(messages) \div size) |->
        SubSeq(messages, (k - 1) * size + 1, k * size)]

\* _chunk_messages: [messages[i:i + size] for i in range(0, len(messages), size)]
ChunkMessages(messages, size) ==
    [k \in 1..((Len(messages) + size - 1) \div size) |->
        SubSeq(messages, (k - 1) * size + 1, Min(k * size, Len(messages)))]

\* valid_messages = [msg for msg in messages if (msg.text and msg.text.strip()) or msg.has_voice]
ValidMessages(messages) == SelectSeq(messages, LAMBDA msg : msg.text \/ msg.has_voice)

MessageIds(messages) == [i \in DOMAIN messages |-> messages[i].message_id]

\* Variant: `if new_ids and len(new_ids) < len(valid_messages)`.
DeduplicateUnlessNoneNew(valid, new_ids) ==
    IF new_ids # <<>> /\ Len(new_ids) < Len(valid)
    THEN SelectSeq(valid, LAMBDA msg : msg.message_id \in Range(new_ids))
    ELSE valid

\* The dedup step of process_chat: the working set after filter_new_messages.
Deduplicate(valid, new_ids) ==
    IF Len(new_ids) < Len(valid)
    THEN SelectSeq(valid, LAMBDA msg : msg.message_id \in Range(new_ids))
    ELSE valid

\* LLMClient.analyze_messages builds each Incident with the chat of the first
\* message and no sender; the sender is filled in by process_chat.
NoSender == 0

\* The severity the classifier gives a message it reports.
SeverityOf(mid) ==
    IF mid = MaxMsgId THEN "critical" ELSE IF mid = 1 THEN "high" ELSE "low"

Incident(chat_id, mid) ==
    [message_id |-> mid, chat_id |-> chat_id, sender_id |-> NoSender,
     severity |-> SeverityOf(mid)]

\* What a successful classification call returns for a chunk: one incident
\* for every message of the chunk that breaks the rules, in chunk order.
AnalyzeMessages(chunk) ==
    LET hits == SelectSeq(chunk, LAMBDA msg : Suspicious(msg.chat_id, msg.message_id))
    IN [i \in DOMAIN hits |-> Incident(chunk[1].chat_id, hits[i].message_id)]

\* Variant: an incident whose message is not in the working set is dropped.
EnrichKnownIncidents(incidents, valid) ==
    LET known == SelectSeq(incidents,
                     LAMBDA inc : \E j \in DOMAIN valid : valid[j].message_id = inc.message_id)
    IN [i \in DOMAIN known |->
           LET hits == {j \in DOMAIN valid : valid[j].message_id = known[i].message_id}
           IN [known[i] EXCEPT
                  !.sender_id = valid[CHOOSE j \in hits : \A h \in hits : h <= j].sender_id]]

\* Enrichment of the incidents with the sender of the originating message.
EnrichIncidents(incidents, valid) ==
    [i \in DOMAIN incidents |->
        LET hits == {j \in DOMAIN valid : valid[j].message_id = incidents[i].message_id}
        IN IF hits = {} THEN incidents[i]
           ELSE [incidents[i] EXCEPT
                    !.sender_id = valid[CHOOSE j \in hits : \A h \in hits : h <= j].sender_id]]

VoicesTranscribed(valid) ==
    Cardinality({i \in DOMAIN valid : valid[i].has_voice /\ valid[i].voice_transcription})

\* The ChatAnalysisResult returned by process_chat.
ChatAnalysisResult(chat_id, valid, incidents) ==
    [chat_id |-> chat_id, messages_analyzed |-> Len(valid),
     voices_transcribed |-> VoicesTranscribed(valid),
     incidents |-> EnrichIncidents(incidents, valid), participant_report |-> None]

\* The early return of process_chat for an empty working set.
EmptyResult(chat_id) ==
    [chat_id |-> chat_id, messages_analyzed |-> 0, voices_transcribed |-> 0,
     incidents |-> <<>>, participant_report |-> None]

\* Variant: the count for "high" compares with "critical" (a copied line).
CountSeverityCopied(incidents, severity) ==
    Cardinality({i \in DOMAIN incidents :
                    incidents[i].severity = (IF severity = "high" THEN "critical" ELSE severity)})

CountSeverity(incidents, severity) ==
    Cardinality({i \in DOMAIN incidents : incidents[i].severity = severity})

\* The results that carry a participant report, in chat order.
WithReport(results) == SelectSeq(results, LAMBDA res : res.participant_report # None)

\* [p.user_id for p in participants]
UserIdList(participants) == [i \in DOMAIN participants |-> participants[i].user_id]

\* aggregate_results: the GlobalReport over the chat results.
AggregateResults(results) ==
    LET incs == Concat([i \in DOMAIN results |-> results[i].incidents])
        reports == [i \in DOMAIN WithReport(results) |->
                       WithReport(results)[i].participant_report[1]]
    IN [chats_scanned |-> Len(results),
        total_messages |-> SumSeq([i \in DOMAIN results |-> results[i].messages_analyzed]),
        total_voices |-> SumSeq([i \in DOMAIN results |-> results[i].voices_transcribed]),
        total_incidents |-> Len(incs),
        critical_incidents |-> CountSeverity(incs, "critical"),
        high_incidents |-> CountSeverity(incs, "high"),
        medium_incidents |-> CountSeverity(incs, "medium"),
        low_incidents |-> CountSeverity(incs, "low"),
        missing_participants |-> SumSeq([i \in DOMAIN reports |-> Len(reports[i].missing)]),
        extra_participants |-> SumSeq([i \in DOMAIN reports |-> Len(reports[i].extra)]),
        missing_ids |-> Concat([i \in DOMAIN reports |-> UserIdList(reports[i].missing)]),
        extra_ids |-> Concat([i \in DOMAIN reports |-> UserIdList(reports[i].extra)])]

\* The stats dict ScanJob.run hands to update_scan_log.
ScanStats(results) ==
    [chats_scanned |-> Len(results),
     messages_processed |-> SumSeq([i \in DOMAIN results |-> results[i].messages_analyzed]),
     voices_transcribed |-> SumSeq([i \in DOMAIN results |-> results[i].voices_transcribed]),
     incidents_found |-> SumSeq([i \in DOMAIN results |-> Len(results[i].incidents)])]

\* ------------------------------------------------------------- state

VARIABLES
    processed_ids,   \* table processed_ids: set of <<chat_id, message_id>>
    scan_logs,       \* table scan_logs: row id -> row
    stopped,         \* the event loop has shut down
    pc,              \* per cycle: the await it is at
    trigger,         \* per cycle: what started it
    log_id,          \* per cycle: log_id of run (NoLog for None)
    chat_i,          \* per cycle: index in chat_ids of the chat in progress
    messages,        \* per cycle: messages collected for the chat
    valid_messages,  \* per cycle: working set of process_chat
    chunk_log,       \* per cycle: outcome of every chunk handled so far
    all_incidents,   \* per cycle: all_incidents of process_chat
    result,          \* per cycle: the result process_chat returned, or None
    chat_results,    \* per cycle: chat_results of run
    global_report,   \* per cycle: global_report of run, or None
    delays,          \* per cycle: pacing delays performed
    faults,          \* per cycle: the store failures met so far
    probe            \* the dedup-store call sequence of SpecDedup

vars == <<processed_ids, scan_logs, stopped, pc, trigger, log_id, chat_i, messages,
          valid_messages, chunk_log, all_incidents, result, chat_results,
          global_report, delays, faults, probe>>

runVars == <<pc, trigger, log_id, chat_i, messages, valid_messages, chunk_log,
             all_incidents, result, chat_results, global_report, delays, faults>>

NoProbe == [pc |-> "off", chat_id |-> 0, message_ids |-> <<>>, first |-> <<>>,
            second |-> <<>>]

InFlight(r) == pc[r] \notin {"idle", "done", "cancelled"}

Init ==
    /\ processed_ids = {}
    /\ scan_logs = <<>>
    /\ stopped = FALSE
    /\ pc = [r \in Runs |-> "idle"]
    /\ trigger = [r \in Runs |-> "none"]
    /\ log_id = [r \in Runs |-> NoLog]
    /\ chat_i = [r \in Runs |-> 0]
    /\ messages = [r \in Runs |-> <<>>]
    /\ valid_messages = [r \in Runs |-> <<>>]
    /\ chunk_log = [r \in Runs |-> <<>>]
    /\ all_incidents = [r \in Runs |-> <<>>]
    /\ result = [r \in Runs |-> None]
    /\ chat_results = [r \in Runs |-> <<>>]
    /\ global_report = [r \in Runs |-> None]
    /\ delays = [r \in Runs |-> 0]
    /\ faults = [r \in Runs |-> {}]
    /\ probe = NoProbe

\* ------------------------------------------------------------- triggers

\* A new asyncio task running ScanJob.run: the first free cycle slot.
StartRun(kind) ==
    /\ \E r \in Runs :
        /\ pc[r] = "idle"
        /\ \A q \in Runs : q < r => pc[q] # "idle"
        /\ pc' = [pc EXCEPT ![r] = "create_log"]
        /\ trigger' = [trigger EXCEPT ![r] = kind]
    /\ UNCHANGED <<processed_ids, scan_logs, stopped, log_id, chat_i, messages,
                   valid_messages, chunk_log, all_incidents, result, chat_results,
                   global_report, delays, faults, probe>>

\* The interval job 'main_scan' of the scheduler, max_instances=1: a firing
\* is skipped while an instance started by the scheduler is still running.
Scheduled ==
    /\ ~stopped
    /\ \A r \in Runs : ~(InFlight(r) /\ trigger[r] = "scheduled")
    /\ StartRun("scheduled")

\* cmd_scan: /scan sent by a user.
CmdScan(user) ==
    /\ ~stopped
    /\ IF user # AdminId
       THEN UNCHANGED vars
       ELSE StartRun("manual")

\* handle_scan_now: the button "cmd_scan_now" of the summary report.
HandleScanNow(user) ==
    /\ ~stopped
    /\ IF user # AdminId
       THEN UNCHANGED vars
       ELSE StartRun("manual")

\* The task and the locals of run are gone once run has ended; log_id and
\* the failures met are kept as the record of the ended cycle.
EndRun(r, how) ==
    /\ pc' = [pc EXCEPT ![r] = how]
    /\ trigger' = [trigger EXCEPT ![r] = "none"]
    /\ chat_i' = [chat_i EXCEPT ![r] = 0]
    /\ messages' = [messages EXCEPT ![r] = <<>>]
    /\ valid_messages' = [valid_messages EXCEPT ![r] = <<>>]
    /\ chunk_log' = [chunk_log EXCEPT ![r] = <<>>]
    /\ all_incidents' = [all_incidents EXCEPT ![r] = <<>>]
    /\ result' = [result EXCEPT ![r] = None]
    /\ chat_results' = [chat_results EXCEPT ![r] = <<>>]
    /\ global_report' = [global_report EXCEPT ![r] = None]

\* main's finally block and the end of asyncio.run: the scheduler's pending
\* futures and every remaining task are cancelled.  CancelledError is not an
\* Exception, so no handler of run catches it and run ends at the await it
\* was at.
Shutdown ==
    LET Keep(f, empty) == [r \in Runs |-> IF InFlight(r) THEN empty ELSE f[r]] IN
    /\ ~stopped
    /\ stopped' = TRUE
    /\ pc' = [r \in Runs |-> IF InFlight(r) THEN "cancelled" ELSE pc[r]]
    /\ chat_i' = Keep(chat_i, 0)
    /\ messages' = Keep(messages, <<>>)
    /\ valid_messages' = Keep(valid_messages, <<>>)
    /\ chunk_log' = Keep(chunk_log, <<>>)
    /\ all_incidents' = Keep(all_incidents, <<>>)
    /\ result' = Keep(result, None)
    /\ chat_results' = Keep(chat_results, <<>>)
    /\ global_report' = Keep(global_report, None)
    /\ trigger' = Keep(trigger, "none")
    /\ UNCHANGED <<processed_ids, scan_logs, log_id, delays, faults, probe>>

\* ------------------------------------------------------------- ScanJob.run

\* run, up to its first await: create_scan_log.  A failure is logged and
\* leaves log_id None.
RunCreateScanLog(r) ==
    /\ pc[r] = "create_log"
    /\ \/ /\ scan_logs' = CreateScanLog(scan_logs)
          /\ log_id' = [log_id EXCEPT ![r] = Len(scan_logs')]
       \/ /\ log_id' = [log_id EXCEPT ![r] = NoLog]
          /\ UNCHANGED scan_logs
    /\ pc' = [pc EXCEPT ![r] = IF chat_ids = <<>> THEN "aggregate" ELSE "collect"]
    /\ chat_i' = [chat_i EXCEPT ![r] = IF chat_ids = <<>> THEN 0 ELSE 1]
    /\ UNCHANGED <<processed_ids, stopped, trigger, messages, valid_messages,
                   chunk_log, all_incidents, result, chat_results, global_report,
                   delays, faults, probe>>

\* The pacing step that ends an iteration of the loop over chat_ids.  It is
\* entered unless the chat equals the last entry of chat_ids; jobs.py never
\* imports asyncio, so `await asyncio.sleep(jitter)` raises NameError, which
\* the handler of the loop logs: the number of delays performed is 0.
Pacing(i) == IF chat_ids[i] # chat_ids[Len(chat_ids)] THEN "NameError" ELSE "skipped"
DelaysPerformed(i) == IF Pacing(i) = "slept" THEN 1 ELSE 0

\* Where run stands once the iteration for chat i is over.
PcAfterChat(i) == IF i < Len(chat_ids) THEN "collect" ELSE "aggregate"
ChatAfterChat(i) == IF i < Len(chat_ids) THEN i + 1 ELSE i

\* The iteration for chat_ids[chat_i[r]] ends: `appended` is the result
\* added to chat_results (None for none), `paced` whether the iteration got
\* as far as the pacing step.
EndChat(r, appended, paced) ==
    LET i == chat_i[r] IN
    /\ pc' = [pc EXCEPT ![r] = PcAfterChat(i)]
    /\ chat_i' = [chat_i EXCEPT ![r] = ChatAfterChat(i)]
    /\ chat_results' = [chat_results EXCEPT ![r] = @ \o appended]
    /\ delays' = [delays EXCEPT ![r] = IF paced THEN @ + DelaysPerformed(i) ELSE @]
    /\ messages' = [messages EXCEPT ![r] = <<>>]
    /\ valid_messages' = [valid_messages EXCEPT ![r] = <<>>]
    /\ chunk_log' = [chunk_log EXCEPT ![r] = <<>>]
    /\ all_incidents' = [all_incidents EXCEPT ![r] = <<>>]
    /\ result' = [result EXCEPT ![r] = None]

\* Variant: `break` in place of `continue` in the handler of the loop.
AbortChatBreaksLoop(r) ==
    /\ pc' = [pc EXCEPT ![r] = "aggregate"]
    /\ UNCHANGED <<chat_i, chat_results, delays>>
    /\ messages' = [messages EXCEPT ![r] = <<>>]
    /\ valid_messages' = [valid_messages EXCEPT ![r] = <<>>]
    /\ chunk_log' = [chunk_log EXCEPT ![r] = <<>>]
    /\ all_incidents' = [all_incidents EXCEPT ![r] = <<>>]
    /\ result' = [result EXCEPT ![r] = None]

\* An exception leaves run_single_chat: the handler of the loop logs it and
\* continues with the next chat, the pacing step is not reached.
AbortChat(r) == EndChat(r, None, FALSE)

\* run_single_chat, part 1: collect_messages and save_messages.  A collector
\* failure makes run_single_chat return None, and the iteration goes on to
\* the pacing step; a failure of save_messages propagates to the handler of
\* the loop in run.
RunCollect(r) ==
    /\ pc[r] = "collect"
    /\ \/ EndChat(r, None, TRUE)
       \/ AbortChat(r)
       \/ /\ messages' = [messages EXCEPT ![r] = CollectMessages(chat_ids[chat_i[r]])]
          /\ pc' = [pc EXCEPT ![r] = "filter"]
          /\ UNCHANGED <<chat_i, valid_messages, chunk_log, all_incidents,
                         result, chat_results, delays>>
    /\ UNCHANGED <<processed_ids, scan_logs, stopped, trigger, log_id,
                   global_report, faults, probe>>

\* ------------------------------------------------- process_chat

\* The chunk process_chat is at: the one being classified, or the one whose
\* messages are being marked.
Chunks(r) == ChunkMessages(valid_messages[r], ChunkSize)
ChunkIndex(r) == IF pc[r] = "mark" THEN Len(chunk_log[r]) ELSE Len(chunk_log[r]) + 1

\* process_chat returns: the loop over the chunks is over.
ReturnResult(r, log) ==
    /\ result' = [result EXCEPT ![r] =
                     <<ChatAnalysisResult(chat_ids[chat_i[r]], valid_messages[r],
                                          all_incidents[r])>>]
    /\ pc' = [pc EXCEPT ![r] = "store"]
    /\ chunk_log' = [chunk_log EXCEPT ![r] = log]

\* After a chunk: the next chunk, or the end of the loop.
NextChunk(r, log) ==
    IF Len(log) < Len(Chunks(r))
    THEN /\ pc' = [pc EXCEPT ![r] = "classify"]
         /\ chunk_log' = [chunk_log EXCEPT ![r] = log]
         /\ UNCHANGED result
    ELSE ReturnResult(r, log)

\* process_chat up to the chunk loop: the text/voice filter and the dedup
\* read.  filter_new_messages returns [] for an empty list without touching
\* the database; its failure leaves process_chat and run_single_chat and is
\* caught by the loop in run.  The transcription loop finds no message with
\* a voice_path.
ProcessChatFilter(r) ==
    LET chat_id == chat_ids[chat_i[r]]
        valid == ValidMessages(messages[r])
        all_ids == MessageIds(valid)
        new_ids == FilterNewMessages(processed_ids, chat_id, all_ids)
        working == Deduplicate(valid, new_ids)
    IN
    /\ pc[r] = "filter"
    /\ \/ /\ all_ids # <<>>
          /\ AbortChat(r)
          /\ faults' = [faults EXCEPT ![r] = @ \cup {"dedup"}]
       \/ /\ valid_messages' = [valid_messages EXCEPT ![r] = working]
          /\ IF working = <<>>
             THEN /\ result' = [result EXCEPT ![r] = <<EmptyResult(chat_id)>>]
                  /\ pc' = [pc EXCEPT ![r] = "store"]
             ELSE /\ pc' = [pc EXCEPT ![r] = "classify"]
                  /\ UNCHANGED result
          /\ UNCHANGED <<chat_i, messages, chunk_log, all_incidents, chat_results,
                         delays, faults>>
    /\ UNCHANGED <<processed_ids, scan_logs, stopped, trigger, log_id,
                   global_report, probe>>

\* analyze_messages returned for the chunk: its incidents are accumulated
\* and mark_as_processed is awaited next.
ClassifySuccess(r) ==
    LET chunk == Chunks(r)[ChunkIndex(r)] IN
    /\ all_incidents' = [all_incidents EXCEPT ![r] = @ \o AnalyzeMessages(chunk)]
    /\ chunk_log' = [chunk_log EXCEPT ![r] =
                        Append(@, [outcome |-> "classified",
                                   incidents |-> AnalyzeMessages(chunk)])]
    /\ pc' = [pc EXCEPT ![r] = "mark"]
    /\ UNCHANGED <<result, processed_ids>>

\* Variant: the chunk is marked although analyze_messages raised.
ClassifyFailureMarking(r) ==
    /\ processed_ids' = MarkAsProcessed(processed_ids, chat_ids[chat_i[r]],
                                        MessageIds(Chunks(r)[ChunkIndex(r)]))
    /\ UNCHANGED all_incidents
    /\ NextChunk(r, Append(chunk_log[r],
                           [outcome |-> "classify_failed", incidents |-> <<>>]))

\* analyze_messages raised for the chunk: the error is logged and the loop
\* goes on with the next chunk.
ClassifyFailure(r) ==
    /\ UNCHANGED <<all_incidents, processed_ids>>
    /\ NextChunk(r, Append(chunk_log[r],
                           [outcome |-> "classify_failed", incidents |-> <<>>]))

\* One iteration of the chunk loop up to the end of analyze_messages.
ProcessChatClassify(r) ==
    /\ pc[r] = "classify"
    /\ \/ ClassifySuccess(r)
       \/ ClassifyFailure(r)
    /\ UNCHANGED <<scan_logs, stopped, trigger, log_id, chat_i, messages,
                   valid_messages, chat_results, global_report, delays, faults,
                   probe>>

\* Variant: only the first message of the chunk is handed over.
ChunkIdsFirstOnly(chunk) == <<chunk[1].message_id>>

\* The ids process_chat hands to mark_as_processed for a chunk.
ChunkIds(chunk) == MessageIds(chunk)

\* The rest of the iteration: mark_as_processed for the chunk.  Its failure
\* is caught by the same handler as a classification failure.
ProcessChatMark(r) ==
    LET k == ChunkIndex(r)
        chunk == Chunks(r)[k]
        settled(o) == [chunk_log[r] EXCEPT ![k].outcome = o]
    IN
    /\ pc[r] = "mark"
    /\ \/ /\ processed_ids' = MarkAsProcessed(processed_ids, chat_ids[chat_i[r]],
                                              ChunkIds(chunk))
          /\ NextChunk(r, settled("ok"))
          /\ UNCHANGED faults
       \/ /\ UNCHANGED processed_ids
          /\ NextChunk(r, settled("mark_failed"))
          /\ faults' = [faults EXCEPT ![r] = @ \cup {"dedup"}]
    /\ UNCHANGED <<scan_logs, stopped, trigger, log_id, chat_i, messages,
                   valid_messages, all_incidents, chat_results, global_report,
                   delays, probe>>

\* ------------------------------------------------- ScanJob.run, continued

\* run_single_chat after process_chat, and the end of the iteration in run.
\* save_incidents is called for a non-empty incident list and its failure
\* propagates to the handler of the loop; the reporting sink, the
\* participant check and the alerts are each inside their own handler.
RunStore(r) ==
    /\ pc[r] = "store"
    /\ \/ /\ result[r][1].incidents # <<>>
          /\ AbortChat(r)
       \/ EndChat(r, result[r], TRUE)
    /\ UNCHANGED <<processed_ids, scan_logs, stopped, trigger, log_id,
                   global_report, faults, probe>>

\* aggregate_results.  The handler around aggregation and reporting sets
\* global_report to None and run goes on to the update of the log.
RunAggregate(r) ==
    /\ pc[r] = "aggregate"
    /\ \/ /\ global_report' = [global_report EXCEPT ![r] = <<AggregateResults(chat_results[r])>>]
          /\ pc' = [pc EXCEPT ![r] = "notify"]
       \/ /\ UNCHANGED global_report
          /\ pc' = [pc EXCEPT ![r] = "finalize"]
    /\ UNCHANGED <<processed_ids, scan_logs, stopped, trigger, log_id, chat_i,
                   messages, valid_messages, chunk_log, all_incidents, result,
                   chat_results, delays, faults, probe>>

\* Variant: a failed send leaves run, no handler around the reporting block.
RunSendSummaryUnhandled(r) ==
    /\ pc[r] = "notify"
    /\ \/ /\ pc' = [pc EXCEPT ![r] = "forward"]
          /\ UNCHANGED <<global_report, trigger, chat_i, messages, valid_messages,
                         chunk_log, all_incidents, result, chat_results>>
       \/ EndRun(r, "done")
    /\ UNCHANGED <<processed_ids, scan_logs, stopped, log_id, delays, faults, probe>>

\* send_summary_report re-raises a failed send, which skips append_scan_log.
RunSendSummary(r) ==
    /\ pc[r] = "notify"
    /\ \/ /\ pc' = [pc EXCEPT ![r] = "forward"]
          /\ UNCHANGED global_report
       \/ /\ global_report' = [global_report EXCEPT ![r] = None]
          /\ pc' = [pc EXCEPT ![r] = "finalize"]
    /\ UNCHANGED <<processed_ids, scan_logs, stopped, trigger, log_id, chat_i,
                   messages, valid_messages, chunk_log, all_incidents, result,
                   chat_results, delays, faults, probe>>

\* append_scan_log, inside its own handler: success and failure both lead to
\* the update of the log.
RunAppendScanLog(r) ==
    /\ pc[r] = "forward"
    /\ pc' = [pc EXCEPT ![r] = "finalize"]
    /\ UNCHANGED <<processed_ids, scan_logs, stopped, trigger, log_id, chat_i,
                   messages, valid_messages, chunk_log, all_incidents, result,
                   chat_results, global_report, delays, faults, probe>>

\* The status run passes to update_scan_log.
FinalStatus(r) == "completed"

\* The end of run: update_scan_log when log_id is set; its failure is logged.
RunUpdateScanLog(r) ==
    /\ pc[r] = "finalize"
    /\ EndRun(r, "done")
    /\ IF log_id[r] # NoLog
       THEN \/ /\ scan_logs' = UpdateScanLog(scan_logs, log_id[r],
                                             ScanStats(chat_results[r]), FinalStatus(r))
               /\ UNCHANGED faults
            \/ /\ UNCHANGED scan_logs
               /\ faults' = [faults EXCEPT ![r] = @ \cup {"update"}]
       ELSE UNCHANGED <<scan_logs, faults>>
    /\ UNCHANGED <<processed_ids, stopped, log_id, delays, probe>>

\* ------------------------------------------------------------- specification

Next ==
    \/ Scheduled
    \/ \E user \in Users : CmdScan(user)
    \/ \E user \in Users : HandleScanNow(user)
    \/ Shutdown
    \/ \E r \in Runs : RunCreateScanLog(r)
    \/ \E r \in Runs : RunCollect(r)
    \/ \E r \in Runs : ProcessChatFilter(r)
    \/ \E r \in Runs : ProcessChatClassify(r)
    \/ \E r \in Runs : ProcessChatMark(r)
    \/ \E r \in Runs : RunStore(r)
    \/ \E r \in Runs : RunAggregate(r)
    \/ \E r \in Runs : RunSendSummary(r)
    \/ \E r \in Runs : RunAppendScanLog(r)
    \/ \E r \in Runs : RunUpdateScanLog(r)

Spec == Init /\ [][Next]_vars

\* ------------------------------------------------- the dedup store alone

\* Every list of message ids of length at most MaxIdsLen, repeats included.
IdLists == UNION {[1..n -> MsgIds] : n \in 0..MaxIdsLen}

\* The store holds any set of markers; one caller runs filter_new_messages,
\* mark_as_processed and filter_new_messages again for a chat and a list.
InitDedup ==
    /\ processed_ids \in SUBSET (Range(chat_ids) \X MsgIds)
    /\ probe \in [pc : {"start"}, chat_id : Range(chat_ids), message_ids : IdLists,
                  first : {<<>>}, second : {<<>>}]
    /\ scan_logs = <<>>
    /\ stopped = FALSE
    /\ pc = [r \in Runs |-> "idle"]
    /\ trigger = [r \in Runs |-> "none"]
    /\ log_id = [r \in Runs |-> NoLog]
    /\ chat_i = [r \in Runs |-> 0]
    /\ messages = [r \in Runs |-> <<>>]
    /\ valid_messages = [r \in Runs |-> <<>>]
    /\ chunk_log = [r \in Runs |-> <<>>]
    /\ all_incidents = [r \in Runs |-> <<>>]
    /\ result = [r \in Runs |-> None]
    /\ chat_results = [r \in Runs |-> <<>>]
    /\ global_report = [r \in Runs |-> None]
    /\ delays = [r \in Runs |-> 0]
    /\ faults = [r \in Runs |-> {}]

\* filter_new_messages: a SELECT, nothing is written.
DedupFilter ==
    /\ probe.pc = "start"
    /\ probe' = [probe EXCEPT !.pc = "filtered",
                   !.first = FilterNewMessages(processed_ids, probe.chat_id,
                                               probe.message_ids)]
    /\ UNCHANGED <<processed_ids, scan_logs, stopped, runVars>>

\* mark_as_processed on the same ids.
DedupMark ==
    /\ probe.pc = "filtered"
    /\ processed_ids' = MarkAsProcessed(processed_ids, probe.chat_id, probe.message_ids)
    /\ probe' = [probe EXCEPT !.pc = "marked"]
    /\ UNCHANGED <<scan_logs, stopped, runVars>>

\* filter_new_messages again on the same ids.
DedupFilterAgain ==
    /\ probe.pc = "marked"
    /\ probe' = [probe EXCEPT !.pc = "refiltered",
                   !.second = FilterNewMessages(processed_ids, probe.chat_id,
                                                probe.message_ids)]
    /\ UNCHANGED <<processed_ids, scan_logs, stopped, runVars>>

NextDedup == DedupFilter \/ DedupMark \/ DedupFilterAgain

SpecDedup == InitDedup /\ [][NextDedup]_vars

\* ------------------------------------------------- _chunk_messages alone

\* No cycle has been started and the tables are empty.
Quiescent ==
    /\ scan_logs = <<>>
    /\ stopped = FALSE
    /\ pc = [r \in Runs |-> "idle"]
    /\ trigger = [r \in Runs |-> "none"]
    /\ log_id = [r \in Runs |-> NoLog]
    /\ chat_i = [r \in Runs |-> 0]
    /\ messages = [r \in Runs |-> <<>>]
    /\ valid_messages = [r \in Runs |-> <<>>]
    /\ chunk_log = [r \in Runs |-> <<>>]
    /\ all_incidents = [r \in Runs |-> <<>>]
    /\ result = [r \in Runs |-> None]
    /\ chat_results = [r \in Runs |-> <<>>]
    /\ global_report = [r \in Runs |-> None]
    /\ delays = [r \in Runs |-> 0]
    /\ faults = [r \in Runs |-> {}]

\* One call of _chunk_messages on any list of at most MaxIdsLen messages
\* (a message stands for itself, repeats allowed) and any size from 1 to
\* MaxCapacity.
InitChunk ==
    /\ probe \in [pc : {"start"}, messages : IdLists, size : 1..MaxCapacity,
                  chunks : {<<>>}]
    /\ processed_ids = {}
    /\ Quiescent

ChunkCall ==
    /\ probe.pc = "start"
    /\ probe' = [probe EXCEPT !.pc = "chunked",
                   !.chunks = ChunkMessages(probe.messages, probe.size)]
    /\ UNCHANGED <<processed_ids, scan_logs, stopped, runVars>>

NextChunkCall == ChunkCall

SpecChunk == InitChunk /\ [][NextChunkCall]_vars

\* ------------------------------------------------- compare_with_whitelist alone

UserIds == 1..MaxUserId

\* ParticipantData: the user id and the profile (username stands for the
\* optional profile fields; None when not given).
ParticipantData(user_id, username) == [user_id |-> user_id, username |-> username]

\* What iter_participants may yield for a user.
Profiles == {ParticipantData(u, n) : u \in UserIds, n \in {None, <<"name">>}}

\* Every list over S of length at most n.
ListsOver(S, n) == UNION {[1..k -> S] : k \in 0..n}

\* current_map = {p.user_id: p for p in participants}: the last entry wins.
CurrentMap(participants) ==
    [uid \in {participants[i].user_id : i \in DOMAIN participants} |->
        participants[CHOOSE i \in DOMAIN participants :
                        /\ participants[i].user_id = uid
                        /\ \A j \in DOMAIN participants :
                              participants[j].user_id = uid => j <= i]]

\* The orders in which a Python set may be iterated.
Enumerations(S) ==
    {f \in [1..Cardinality(S) -> S] : \A i, j \in DOMAIN f : f[i] = f[j] => i = j}

\* Variant: every whitelisted id is reported missing, present or not.
CompareWithWhitelistAllMissing(chat_id, participants, whitelist) ==
    LET current_map == CurrentMap(participants)
        current_ids == DOMAIN current_map
        whitelist_ids == Range(whitelist)
        missing_ids == whitelist_ids
        extra_ids == current_ids \ whitelist_ids
    IN {[chat_id |-> chat_id,
         missing |-> [i \in DOMAIN mo |-> ParticipantData(mo[i], None)],
         extra |-> [i \in DOMAIN eo |-> current_map[eo[i]]]] :
           mo \in Enumerations(missing_ids), eo \in Enumerations(extra_ids)}

\* compare_with_whitelist: the reports it may return (one per iteration order
\* of the two id sets).
CompareWithWhitelist(chat_id, participants, whitelist) ==
    LET current_map == CurrentMap(participants)
        current_ids == DOMAIN current_map
        whitelist_ids == Range(whitelist)
        missing_ids == whitelist_ids \ current_ids
        extra_ids == current_ids \ whitelist_ids
    IN {[chat_id |-> chat_id,
         missing |-> [i \in DOMAIN mo |-> ParticipantData(mo[i], None)],
         extra |-> [i \in DOMAIN eo |-> current_map[eo[i]]]] :
           mo \in Enumerations(missing_ids), eo \in Enumerations(extra_ids)}

\* One call of compare_with_whitelist for any chat, any roster of at most
\* MaxRoster entries (a user may occur twice) and any whitelist of at most
\* MaxRoster ids.
InitWhitelist ==
    /\ probe \in [pc : {"start"}, chat_id : Range(chat_ids),
                  participants : ListsOver(Profiles, MaxRoster),
                  whitelist : ListsOver(UserIds, MaxRoster),
                  report : {None}]
    /\ processed_ids = {}
    /\ Quiescent

CompareCall ==
    /\ probe.pc = "start"
    /\ \E report \in CompareWithWhitelist(probe.chat_id, probe.participants,
                                          probe.whitelist) :
          probe' = [probe EXCEPT !.pc = "compared", !.report = <<report>>]
    /\ UNCHANGED <<processed_ids, scan_logs, stopped, runVars>>

NextWhitelist == CompareCall

SpecWhitelist == InitWhitelist /\ [][NextWhitelist]_vars

\* ------------------------------------------------- aggregate_results alone

\* Severity.
Severities == {"low", "medium", "high", "critical"}

\* The incident lists, by severity, of the sample chat results.
SampleSeverityLists == {<<>>, <<"critical", "low">>, <<"high">>, <<"medium">>}

\* The participant reports of the sample chat results.
SampleReports ==
    {None,
     <<[missing |-> <<ParticipantData(1, None)>>, extra |-> <<>>]>>,
     <<[missing |-> <<ParticipantData(3, None), ParticipantData(1, None)>>,
        extra |-> <<ParticipantData(2, <<"name">>)>>]>>}

\* The chat results run may hand over: any size, any voice count, incidents
\* of any severity, with or without a participant report.
SampleResults ==
    {[chat_id |-> 1, messages_analyzed |-> n, voices_transcribed |-> v,
      incidents |-> [i \in DOMAIN sl |-> [Incident(1, i) EXCEPT !.severity = sl[i]]],
      participant_report |-> pr] :
        n \in {0, 3}, v \in {0, 1}, sl \in SampleSeverityLists, pr \in SampleReports}

\* One call of aggregate_results on any list of at most MaxResults results.
InitAggregate ==
    /\ probe \in [pc : {"start"}, results : ListsOver(SampleResults, MaxResults),
                  report : {None}]
    /\ processed_ids = {}
    /\ Quiescent

AggregateCall ==
    /\ probe.pc = "start"
    /\ probe' = [probe EXCEPT !.pc = "aggregated",
                   !.report = <<AggregateResults(probe.results)>>]
    /\ UNCHANGED <<processed_ids, scan_logs, stopped, runVars>>

NextAggregate == AggregateCall

SpecAggregate == InitAggregate /\ [][NextAggregate]_vars

\* ------------------------------------------------- the incidents table

IncidentIds == 1..MaxIncidentId

\* A row as save_incidents inserts it: status 'new', nothing resolved.
NewIncidentRow == [status |-> "new", resolved_at |-> None, resolved_by |-> None]

\* The statuses a caller may pass to update_incident_status.
IncidentStatuses == {"new", "confirmed", "false_positive"}

\* UPDATE incidents SET status, resolved_at, resolved_by WHERE id = ?: the
\* rows with that id, none when there is no such row.
UpdateIncidentStatus(table, incident_id, new_status, resolved_by) ==
    [id \in DOMAIN table |->
        IF id = incident_id
        THEN [status |-> new_status,
              resolved_at |-> IF new_status \in {"confirmed", "false_positive"}
                              THEN <<"now">> ELSE None,
              resolved_by |-> resolved_by]
        ELSE table[id]]

\* SELECT * FROM incidents WHERE id = ?: the row or None.
GetIncident(table, incident_id) ==
    IF incident_id \in DOMAIN table THEN <<table[incident_id]>> ELSE None

\* The status a button of the alert card stands for ("" for any other).
NewStatusOf(action) ==
    CASE action = "false" -> "false_positive"
      [] action = "confirm" -> "confirmed"
      [] OTHER -> ""

NoCall == [op |-> "none", incident_id |-> 0, user |-> 0, before |-> <<>>,
           outcome |-> "none"]

InitIncidents ==
    /\ \E stored \in SUBSET IncidentIds :
          probe = [pc |-> "incidents", table |-> [id \in stored |-> NewIncidentRow],
                   last |-> NoCall]
    /\ processed_ids = {}
    /\ Quiescent

\* update_incident_status called directly; the connection may fail, in which
\* case nothing is committed and the error of the driver propagates.
UpdateIncidentStatusCall ==
    /\ probe.pc = "incidents"
    /\ \E incident_id \in IncidentIds, new_status \in IncidentStatuses,
          resolved_by \in {None} \cup {<<u>> : u \in Users}, db_ok \in BOOLEAN :
          probe' = [probe EXCEPT
              !.table = IF db_ok
                        THEN UpdateIncidentStatus(@, incident_id, new_status, resolved_by)
                        ELSE @,
              !.last = [op |-> "update_incident_status", incident_id |-> incident_id,
                        user |-> 0, before |-> probe.table,
                        outcome |-> IF db_ok THEN "returned" ELSE "database_error"]]
    /\ UNCHANGED <<processed_ids, scan_logs, stopped, runVars>>

\* handle_incident_action for a callback "incident_<action>_<id>" from any
\* user.
HandleIncidentAction ==
    /\ probe.pc = "incidents"
    /\ \E user \in Users, action \in {"details", "false", "confirm", "other"},
          incident_id \in IncidentIds :
          LET found == GetIncident(probe.table, incident_id)
              new_status == NewStatusOf(action)
              call(table, outcome) ==
                  [probe EXCEPT !.table = table,
                     !.last = [op |-> "handle_incident_action",
                               incident_id |-> incident_id, user |-> user,
                               before |-> probe.table, outcome |-> outcome]]
          IN \/ /\ action = "details"
                /\ probe' = call(probe.table, "details")
             \/ /\ action # "details"
                /\ found = None
                /\ probe' = call(probe.table, "not_found_answer")
             \/ /\ action # "details"
                /\ found # None
                /\ new_status = ""
                /\ probe' = call(probe.table, "ignored")
             \/ /\ action # "details"
                /\ found # None
                /\ new_status # ""
                /\ probe' = call(UpdateIncidentStatus(probe.table, incident_id,
                                                      new_status, <<user>>),
                                 "status_updated")
    /\ UNCHANGED <<processed_ids, scan_logs, stopped, runVars>>

NextIncidents == UpdateIncidentStatusCall \/ HandleIncidentAction

SpecIncidents == InitIncidents /\ [][NextIncidents]_vars

\* ------------------------------------------------- one cycle in detail

\* The whitelist sheet and the live roster: chat 1 is whitelisted for user 1
\* and holds user 2; the other chats have no whitelist entry.
WhitelistOf(chat_id) == IF chat_id = 1 THEN <<1>> ELSE <<>>
RosterOf(chat_id) == <<ParticipantData(2, None)>>

\* save_messages: INSERT OR IGNORE of every message, then commit.  A failed
\* INSERT is logged and skipped: `failed` are the ids it failed for.
SaveMessages(rows, msgs, failed) ==
    rows \cup {<<msgs[i].chat_id, msgs[i].message_id>> :
                  i \in {j \in DOMAIN msgs : msgs[j].message_id \notin failed}}

\* FOREIGN KEY (chat_id, message_id) REFERENCES messages(chat_id, message_id),
\* enforced by PRAGMA foreign_keys = ON.
ForeignKeysHold(rows, incidents) ==
    \A i \in DOMAIN incidents : <<incidents[i].chat_id, incidents[i].message_id>> \in rows

\* save_incidents: one INSERT per incident, then commit.
SaveIncidents(table, incidents) == table \o incidents

\* incident.severity.value in ['critical', 'high']
Alertable(incident) == incident.severity \in {"critical", "high"}

\* The alert loop of run_single_chat: the send_incident_alert calls made, in
\* order; `failed` are the message ids whose dispatch raises.
AlertAttempts(incidents, failed) ==
    LET due == SelectSeq(incidents, Alertable)
    IN [i \in DOMAIN due |->
           [message_id |-> due[i].message_id, severity |-> due[i].severity,
            sent |-> due[i].message_id \notin failed]]

\* How the participant check of a chat may end.
ParticipantOutcomes(chat_id) ==
    IF WhitelistOf(chat_id) = <<>> THEN {"no_whitelist"}
    ELSE {"no_whitelist", "check_failed", "sink_failed", "sink_ok"}

\* What the cycle has done so far to the messages table, the incidents table
\* and the reporting sink, and how the last chat that got past process_chat
\* ended.
NoTail == [chat_id |-> 0, outcome |-> "none", failed_sinks |-> {}, alerts |-> <<>>]

NoLedger == [pc |-> "cycle", rows |-> {}, incidents |-> <<>>, tail |-> NoTail,
             scan_log_sink |-> "none"]

InitCycle ==
    /\ probe = NoLedger
    /\ processed_ids = {}
    /\ Quiescent

\* The first firing of the interval job after start-up.
FirstFiring ==
    /\ \A r \in Runs : pc[r] = "idle"
    /\ Scheduled

\* run_single_chat up to process_chat: collect_messages, then save_messages.
\* A collector failure makes run_single_chat return None; a failure of the
\* connection or of the commit in save_messages propagates to the handler of
\* the loop in run; a failed INSERT does not.
RunCollectDetail(r) ==
    LET collected == CollectMessages(chat_ids[chat_i[r]]) IN
    /\ pc[r] = "collect"
    /\ \/ /\ EndChat(r, None, TRUE)
          /\ UNCHANGED probe
       \/ /\ collected # <<>>
          /\ AbortChat(r)
          /\ UNCHANGED probe
       \/ /\ \E failed \in SUBSET Range(MessageIds(collected)) :
                probe' = [probe EXCEPT !.rows = SaveMessages(@, collected, failed)]
          /\ messages' = [messages EXCEPT ![r] = collected]
          /\ pc' = [pc EXCEPT ![r] = "filter"]
          /\ UNCHANGED <<chat_i, valid_messages, chunk_log, all_incidents,
                         result, chat_results, delays>>
    /\ UNCHANGED <<processed_ids, scan_logs, stopped, trigger, log_id,
                   global_report, faults>>

\* run_single_chat after process_chat, and the end of the iteration in run:
\* save_incidents (only for a non-empty list; it fails when a foreign key does
\* not hold or the database does, nothing is committed then and the error
\* propagates), append_incidents, the participant check and the alerts, each
\* of the last three inside its own handler.
RunStoreDetail(r) ==
    LET chat_id == chat_ids[chat_i[r]]
        res == result[r][1]
    IN
    /\ pc[r] = "store"
    /\ \/ /\ res.incidents # <<>>
          /\ AbortChat(r)
          /\ probe' = [probe EXCEPT !.tail =
                          [chat_id |-> chat_id, outcome |-> "save_incidents_failed",
                           failed_sinks |-> {}, alerts |-> <<>>]]
       \/ /\ res.incidents # <<>> => ForeignKeysHold(probe.rows, res.incidents)
          /\ \E incidents_sink \in BOOLEAN, check \in ParticipantOutcomes(chat_id),
                report \in CompareWithWhitelist(chat_id, RosterOf(chat_id),
                                                WhitelistOf(chat_id)),
                failed \in SUBSET {res.incidents[i].message_id : i \in DOMAIN res.incidents} :
                /\ res.incidents = <<>> => incidents_sink /\ failed = {}
                /\ \A i \in DOMAIN res.incidents :
                      res.incidents[i].message_id \in failed => Alertable(res.incidents[i])
                /\ EndChat(r, <<IF check \in {"sink_failed", "sink_ok"}
                                THEN [res EXCEPT !.participant_report = <<report>>]
                                ELSE res>>, TRUE)
                /\ probe' = [probe EXCEPT
                      !.incidents = IF res.incidents # <<>>
                                    THEN SaveIncidents(@, res.incidents) ELSE @,
                      !.tail = [chat_id |-> chat_id, outcome |-> "returned",
                                failed_sinks |->
                                    (IF incidents_sink THEN {} ELSE {"append_incidents"})
                                    \cup (IF check = "sink_failed"
                                          THEN {"append_participant_report"} ELSE {}),
                                alerts |-> AlertAttempts(res.incidents, failed)]]
    /\ UNCHANGED <<processed_ids, scan_logs, stopped, trigger, log_id,
                   global_report, faults>>

\* Variant: a failure of append_scan_log leaves run.
AfterAppendScanLogRaising(ok) == IF ok THEN "finalize" ELSE "done"

\* Where run goes on after append_scan_log, which is inside its own handler.
AfterAppendScanLog(ok) == "finalize"

\* append_scan_log, with its outcome.
RunAppendScanLogDetail(r) ==
    /\ pc[r] = "forward"
    /\ \E ok \in BOOLEAN :
          /\ pc' = [pc EXCEPT ![r] = AfterAppendScanLog(ok)]
          /\ probe' = [probe EXCEPT !.scan_log_sink = IF ok THEN "ok" ELSE "failed"]
    /\ UNCHANGED <<processed_ids, scan_logs, stopped, trigger, log_id, chat_i,
                   messages, valid_messages, chunk_log, all_incidents, result,
                   chat_results, global_report, delays, faults>>

NextCycle ==
    \/ FirstFiring
    \/ Shutdown
    \/ \E r \in Runs : RunCreateScanLog(r)
    \/ \E r \in Runs : RunCollectDetail(r)
    \/ \E r \in Runs : ProcessChatFilter(r)
    \/ \E r \in Runs : ProcessChatClassify(r)
    \/ \E r \in Runs : ProcessChatMark(r)
    \/ \E r \in Runs : RunStoreDetail(r)
    \/ \E r \in Runs : RunAggregate(r)
    \/ \E r \in Runs : RunSendSummary(r)
    \/ \E r \in Runs : RunAppendScanLogDetail(r)
    \/ \E r \in Runs : RunUpdateScanLog(r)

SpecCycle == InitCycle /\ [][NextCycle]_vars

\* ------------------------------------------------- HealthCheckJob

\* check_telethon, check_bot, check_database, in the order of gather.
Checks == <<"telethon", "bot", "database">>

\* What the external call of a check may do.  is_connected() is a plain call
\* that returns or raises; get_me() and the SELECT on a new connection are
\* awaited without a timeout, so they may also never complete.
ExternalOutcomes(check) ==
    IF check = "telethon" THEN {"ok", "down", "raises"}
    ELSE {"ok", "raises", "hangs"}

\* What a check coroutine returns: the handler inside it turns an exception
\* into False.
CheckReturn(outcome) == outcome = "ok"

\* clean_results of run: an exception object among the gather results counts
\* as False.
CleanResults(outcome) == [i \in DOMAIN Checks |-> CheckReturn(outcome[Checks[i]])]

\* Variant: `if not any(clean_results)`.
AlertDueWhenAllFail(clean_results) == \A i \in DOMAIN clean_results : ~clean_results[i]

\* `if not all(clean_results)`
AlertDue(clean_results) == \E i \in DOMAIN clean_results : ~clean_results[i]

\* The errors listed in the alert, in order.
HealthErrors(clean_results) ==
    SelectSeq(Checks, LAMBDA c : \E i \in DOMAIN Checks : Checks[i] = c /\ ~clean_results[i])

NoHealthRun == [pc |-> "idle", run |-> 0,
                outcome |-> [c \in Range(Checks) |-> "pending"],
                alert |-> "none", errors |-> <<>>]

InitHealth ==
    /\ probe = NoHealthRun
    /\ processed_ids = {}
    /\ Quiescent

\* The interval job 'health_check', max_instances=1: it fires when no
\* instance is running.
HealthScheduled ==
    /\ probe.pc \in {"idle", "returned"}
    /\ probe.run < MaxHealthRuns
    /\ probe' = [NoHealthRun EXCEPT !.pc = "gather", !.run = probe.run + 1]
    /\ UNCHANGED <<processed_ids, scan_logs, stopped, runVars>>

\* One of the three coroutines gather runs concurrently gets the outcome of
\* its external call; a call that hangs never wakes its coroutine.
HealthCheck(check) ==
    /\ probe.pc = "gather"
    /\ probe.outcome[check] = "pending"
    /\ \E o \in ExternalOutcomes(check) :
          probe' = [probe EXCEPT !.outcome[check] = o]
    /\ UNCHANGED <<processed_ids, scan_logs, stopped, runVars>>

\* gather returns once all three coroutines are done; run then builds
\* clean_results and sends the alert inside its own handler.
HealthReport ==
    LET clean_results == CleanResults(probe.outcome) IN
    /\ probe.pc = "gather"
    /\ \A c \in Range(Checks) : probe.outcome[c] \notin {"pending", "hangs"}
    /\ \E sent \in BOOLEAN :
          probe' = [probe EXCEPT
              !.pc = "returned",
              !.alert = IF AlertDue(clean_results)
                        THEN (IF sent THEN "sent" ELSE "send_failed") ELSE "none",
              !.errors = IF AlertDue(clean_results)
                         THEN HealthErrors(clean_results) ELSE <<>>]
    /\ UNCHANGED <<processed_ids, scan_logs, stopped, runVars>>

NextHealth ==
    \/ HealthScheduled
    \/ \E check \in Range(Checks) : HealthCheck(check)
    \/ HealthReport

SpecHealth == InitHealth /\ [][NextHealth]_vars

\* The event loop runs every coroutine that can make a step.
SpecHealthLive == SpecHealth /\ WF_vars(NextHealth)

\* ------------------------------------------------- the classifier response

\* IncidentCategory.
IncidentCategories == {"leak", "inappropriate", "spam", "off_topic", "security_risk"}

\* Confidence values as the classifier may write them, in tenths: below 0,
\* the two bounds, and above 1.
ConfidenceTenths == {0 - 5, 0, 10, 15}

\* The working set of process_chat in SpecResponse: a chat whose lookback
\* window holds the newest messages of chat 1, one chunk of them.
ResponseMessages ==
    LET all == ValidMessages(CollectMessages(1))
    IN SubSeq(all, 1, Min(ChunkSize, Len(all)))

\* An entry of result["incidents"]: a message id of the working set or one
\* outside it, a category and a severity inside or outside the enumerations,
\* a confidence or null.
IncidentEntries ==
    [message_id : {MaxMsgId, MaxMsgId + 1},
     category : {"spam", "other"},
     severity : {"high", "urgent"},
     confidence : {None} \cup {<<c>> : c \in ConfidenceTenths}]

\* The JSON content of a reply: with or without the keys "incidents" and
\* "summary", and at most MaxEntries incident entries.
Responses ==
    [well_formed : BOOLEAN, incidents : ListsOver(IncidentEntries, MaxEntries)]

\* Variant: an entry outside the enumerations is not caught per entry.
ParseIncidentRaising(inc_data, chat_id) ==
    IF inc_data.category \notin IncidentCategories \/ inc_data.severity \notin Severities
    THEN [kind |-> "raises", incident |-> None]
    ELSE IF inc_data.confidence = None
    THEN [kind |-> "raises", incident |-> None]
    ELSE IF inc_data.confidence[1] < 0 \/ inc_data.confidence[1] > 10
    THEN [kind |-> "rejected", incident |-> None]
    ELSE [kind |-> "incident",
          incident |-> <<[message_id |-> inc_data.message_id, chat_id |-> chat_id,
                          sender_id |-> NoSender, severity |-> inc_data.severity,
                          category |-> inc_data.category,
                          confidence |-> inc_data.confidence[1]]>>]

\* The body of the loop over result["incidents"]: IncidentCategory(...) and
\* Severity(...) raise ValueError outside the enumerations, float(None)
\* raises TypeError, and the model's Field(ge=0.0, le=1.0) raises a
\* ValidationError (a ValueError) outside [0, 1]; KeyError and ValueError
\* are caught per entry, anything else leaves the loop.
ParseIncident(inc_data, chat_id) ==
    IF inc_data.category \notin IncidentCategories \/ inc_data.severity \notin Severities
    THEN [kind |-> "rejected", incident |-> None]
    ELSE IF inc_data.confidence = None
    THEN [kind |-> "raises", incident |-> None]
    ELSE IF inc_data.confidence[1] < 0 \/ inc_data.confidence[1] > 10
    THEN [kind |-> "rejected", incident |-> None]
    ELSE [kind |-> "incident",
          incident |-> <<[message_id |-> inc_data.message_id, chat_id |-> chat_id,
                          sender_id |-> NoSender, severity |-> inc_data.severity,
                          category |-> inc_data.category,
                          confidence |-> inc_data.confidence[1]]>>]

\* analyze_messages on a reply: it raises on a missing key and on an entry
\* that raises, else it returns the incidents of the entries kept, in order.
ParseResponse(response, chat_id) ==
    LET parsed == [i \in DOMAIN response.incidents |->
                      ParseIncident(response.incidents[i], chat_id)]
    IN IF ~response.well_formed \/ \E i \in DOMAIN parsed : parsed[i].kind = "raises"
       THEN [outcome |-> "raised", incidents |-> <<>>]
       ELSE [outcome |-> "returned",
             incidents |-> Concat([i \in DOMAIN parsed |-> parsed[i].incident])]

InitResponse ==
    /\ probe \in [pc : {"classify"}, response : Responses,
                  analysis : {[outcome |-> "none", incidents |-> <<>>]},
                  mark : {"none"}, result : {None}]
    /\ processed_ids = {}
    /\ Quiescent

\* The iteration of the chunk loop up to the end of analyze_messages.
ResponseClassify ==
    LET analysis == ParseResponse(probe.response, 1) IN
    /\ probe.pc = "classify"
    /\ probe' = [probe EXCEPT !.analysis = analysis,
                   !.pc = IF analysis.outcome = "returned" THEN "mark" ELSE "enrich"]
    /\ UNCHANGED <<processed_ids, scan_logs, stopped, runVars>>

\* mark_as_processed for the chunk; its failure is logged by the handler of
\* the iteration.
ResponseMark ==
    /\ probe.pc = "mark"
    /\ \/ /\ processed_ids' = MarkAsProcessed(processed_ids, 1, ChunkIds(ResponseMessages))
          /\ probe' = [probe EXCEPT !.pc = "enrich", !.mark = "ok"]
       \/ /\ UNCHANGED processed_ids
          /\ probe' = [probe EXCEPT !.pc = "enrich", !.mark = "failed"]
    /\ UNCHANGED <<scan_logs, stopped, runVars>>

\* The enrichment and the return of process_chat.
ResponseReturn ==
    /\ probe.pc = "enrich"
    /\ probe' = [probe EXCEPT !.pc = "returned",
                   !.result = <<ChatAnalysisResult(1, ResponseMessages,
                                                   probe.analysis.incidents)>>]
    /\ UNCHANGED <<processed_ids, scan_logs, stopped, runVars>>

NextResponse == ResponseClassify \/ ResponseMark \/ ResponseReturn

SpecResponse == InitResponse /\ [][NextResponse]_vars

\* ------------------------------------------------------------- properties

Terminal == {"completed", "failed"}

\* The chunk-loop part of process_chat, where chunk_log is meaningful.
InChunkLoop(r) == pc[r] \in {"classify", "mark", "store"}

\* No other cycle has been started so far.
LoneCycle(r) == \A q \in Runs \ {r} : pc[q] = "idle"

Marked(chat_id, ids) == \A i \in DOMAIN ids : <<chat_id, ids[i]>> \in processed_ids

\* The step of cycle r in which the classification call for a chunk raises.
ClassifyFailedStep(r) ==
    /\ pc[r] = "classify"
    /\ Len(chunk_log'[r]) = Len(chunk_log[r]) + 1
    /\ chunk_log'[r][Len(chunk_log'[r])].outcome = "classify_failed"

C1_FailedStep(r) ==
    ClassifyFailedStep(r) =>
        LET k == Len(chunk_log[r]) + 1
            chat_id == chat_ids[chat_i[r]]
            ids == MessageIds(Chunks(r)[k])
        IN /\ \A i \in DOMAIN ids :
                <<chat_id, ids[i]>> \in processed_ids' => <<chat_id, ids[i]>> \in processed_ids
           /\ FilterNewMessages(processed_ids', chat_id, ids)
                 = FilterNewMessages(processed_ids, chat_id, ids)
           /\ valid_messages'[r] = valid_messages[r]
           /\ IF k < Len(Chunks(r))
              THEN pc'[r] = "classify"
              ELSE pc'[r] = "store" /\ result'[r] # None

C1_FailedChunksStayNew ==
    \A r \in Runs :
        (LoneCycle(r) /\ InChunkLoop(r)) =>
            \A k \in DOMAIN chunk_log[r] :
                chunk_log[r][k].outcome = "classify_failed" =>
                    FilterNewMessages(processed_ids, chat_ids[chat_i[r]],
                                      MessageIds(Chunks(r)[k]))
                        = MessageIds(Chunks(r)[k])

\* C1: when the classification call for a chunk raises in process_chat, that
\* step marks no message of the chunk and leaves what filter_new_messages
\* returns for the chunk's ids as it was, the loop goes on with the next chunk
\* (or process_chat returns its result after the last one), and while no other
\* cycle has been started a filter_new_messages for the ids of a failed chunk
\* returns all of them.
C1_ClassifyFailureLeavesChunkNew ==
    /\ []C1_FailedChunksStayNew
    /\ [][\A r \in Runs : C1_FailedStep(r)]_vars

\* A first chunk whose classification failed, its ids still new, and the
\* second chunk about to be classified.
C1_Witness ==
    \E r \in Runs :
        /\ pc[r] = "classify"
        /\ Len(chunk_log[r]) = 1
        /\ chunk_log[r][1].outcome = "classify_failed"
        /\ FilterNewMessages(processed_ids, chat_ids[chat_i[r]], MessageIds(Chunks(r)[1]))
              = MessageIds(Chunks(r)[1])

\* C2: across any interleaving of scan cycles, a chunk is submitted to the
\* classifier only if none of its messages has a processed marker.
C2_MarkedNeverResubmitted ==
    [][\A r \in Runs :
          (pc[r] = "classify" /\ Len(chunk_log'[r]) = Len(chunk_log[r]) + 1) =>
              \A i \in DOMAIN Chunks(r)[Len(chunk_log[r]) + 1] :
                  <<chat_ids[chat_i[r]], Chunks(r)[Len(chunk_log[r]) + 1][i].message_id>>
                      \notin processed_ids]_vars

\* C3: at most one scan cycle is in flight at any time.
C3_AtMostOneCycleInFlight == Cardinality({r \in Runs : InFlight(r)}) <= 1

\* The step in which run returns, a run record created, after the processing
\* of a chat, the aggregation or the summary notification failed.
C4_ReturnsAfterFailure(r) ==
    /\ pc[r] # "done"
    /\ pc'[r] = "done"
    /\ log_id[r] # NoLog
    /\ \/ Len(chat_results[r]) < Len(chat_ids)
       \/ global_report[r] = None

C5_RecordLeavesRunning ==
    \A r \in Runs :
        (pc[r] = "done" /\ log_id[r] # NoLog) => scan_logs[log_id[r]].status # "running"

\* C6: when the task running run is cancelled while a chat is being
\* processed, the run record is finalized and not left in status running.
C6_CancelledCycleFinalized ==
    [][\A r \in Runs :
          (/\ pc[r] \in {"collect", "filter", "classify", "mark", "store"}
           /\ pc'[r] = "cancelled"
           /\ log_id[r] # NoLog) =>
              scan_logs'[log_id[r]].status # "running"]_vars

\* C7: a cycle in which filter_new_messages or mark_as_processed failed has
\* its run record finalized with status failed.
C7_DedupFailureFailsCycle ==
    \A r \in Runs :
        (/\ pc[r] = "done"
         /\ log_id[r] # NoLog
         /\ "dedup" \in faults[r]
         /\ "update" \notin faults[r]) =>
            scan_logs[log_id[r]].status = "failed"

C8_Step(r) ==
    /\ (pc[r] # "aggregate" /\ pc'[r] = "aggregate") =>
           (pc[r] \in {"collect", "filter", "store"} /\ chat_i[r] = Len(chat_ids))
    /\ (pc[r] = "aggregate" /\ pc'[r] \notin {"aggregate", "cancelled"}) =>
           pc'[r] \in {"notify", "finalize"}
    /\ (pc[r] = "notify" /\ pc'[r] \notin {"notify", "cancelled"}) => pc'[r] = "forward"
    /\ (pc[r] = "forward" /\ pc'[r] \notin {"forward", "cancelled"}) => pc'[r] = "finalize"
    /\ (pc[r] = "finalize" /\ pc'[r] \notin {"finalize", "cancelled"}) =>
           /\ pc'[r] = "done"
           /\ log_id[r] # NoLog =>
                 /\ scan_logs[log_id[r]].status = "running"
                 /\ scan_logs'[log_id[r]].status \in Terminal
    /\ (pc[r] # "finalize" /\ log_id[r] # NoLog) =>
           scan_logs'[log_id[r]] = scan_logs[log_id[r]]

\* C8: in every cycle the chats are processed, then the results aggregated,
\* then one summary notification sent, then the aggregated record forwarded,
\* then the run record finalized; the run record changes from running to a
\* terminal status in the finalization step and in no other step.
C8_StepOrderAndSingleFinalization == [][\A r \in Runs : C8_Step(r)]_vars

\* The input ids without a marker for the chat, in input order.
RECURSIVE UnmarkedInOrder(_, _, _)
UnmarkedInOrder(P, chat_id, ids) ==
    IF ids = <<>> THEN <<>>
    ELSE (IF <<chat_id, Head(ids)>> \in P THEN <<>> ELSE <<Head(ids)>>)
             \o UnmarkedInOrder(P, chat_id, Tail(ids))

C9_Results ==
    /\ probe.pc = "filtered" =>
           probe.first = UnmarkedInOrder(processed_ids, probe.chat_id, probe.message_ids)
    /\ probe.pc = "refiltered" => probe.second = <<>>

\* C9: for any chat and any list of message ids, filter_new_messages returns
\* exactly the input ids without a marker for that chat, in input order, and
\* changes no stored state; after mark_as_processed on the same ids a second
\* filter_new_messages on them returns the empty list.
C9_FilterMarkFilter ==
    /\ []C9_Results
    /\ [][probe'.pc \in {"filtered", "refiltered"} => processed_ids' = processed_ids]_vars

\* The round trip done for a list with a repeated id, of which the first call
\* returned some but not all, in a store that also marks another chat.
C9_Witness ==
    /\ probe.pc = "refiltered"
    /\ probe.second = <<>>
    /\ probe.first # <<>>
    /\ Len(probe.first) < Len(probe.message_ids)
    /\ Len(probe.message_ids) > Cardinality(Range(probe.message_ids))
    /\ \E c \in Range(chat_ids) \ {probe.chat_id} : \E m \in Range(probe.first) :
          <<c, m>> \in processed_ids

\* The incidents accumulated over the chunks handled so far.
AccumulatedIncidents(r) ==
    Concat([k \in DOMAIN chunk_log[r] |->
               IF chunk_log[r][k].outcome = "classify_failed" THEN <<>>
               ELSE AnalyzeMessages(Chunks(r)[k])])

CeilDiv(n, c) == CHOOSE k \in 0..n : k * c >= n /\ \A j \in 0..n : j * c >= n => k <= j

\* C11: for a list of N messages and a capacity C >= 1, _chunk_messages
\* returns ceil(N/C) chunks, each of 1 to C messages, whose concatenation is
\* the input (same messages, same order, none repeated or dropped).
C11_ChunksPartitionInput ==
    probe.pc = "chunked" =>
        /\ Len(probe.chunks) = CeilDiv(Len(probe.messages), probe.size)
        /\ \A k \in DOMAIN probe.chunks :
              Len(probe.chunks[k]) >= 1 /\ Len(probe.chunks[k]) <= probe.size
        /\ Concat(probe.chunks) = probe.messages

\* A list split into a full chunk and a shorter last one.
C11_Witness ==
    /\ probe.pc = "chunked"
    /\ Len(probe.chunks) = 2
    /\ Len(probe.chunks[1]) = probe.size
    /\ Len(probe.chunks[2]) < probe.size
    /\ probe.size > 1

\* The collected messages of the chat of cycle r that carry text or voice and
\* have no processed marker.
WorkingSet(r) ==
    SelectSeq(messages[r],
              LAMBDA msg : /\ msg.text \/ msg.has_voice
                           /\ <<chat_ids[chat_i[r]], msg.message_id>> \notin processed_ids)

\* C12: when the working set of process_chat is empty (only messages without
\* text and voice, or every remaining message already marked), process_chat
\* returns messages_analyzed = 0, voices_transcribed = 0 and no incidents,
\* without a classification call and without mark_as_processed.
C12_EmptyWorkingSetReturnsZero ==
    [][\A r \in Runs :
          (/\ pc[r] = "filter"
           /\ pc'[r] \in {"classify", "mark", "store"}
           /\ WorkingSet(r) = <<>>) =>
              /\ pc'[r] = "store"
              /\ result'[r] # None
              /\ result'[r][1].messages_analyzed = 0
              /\ result'[r][1].voices_transcribed = 0
              /\ result'[r][1].incidents = <<>>
              /\ chunk_log'[r] = <<>>
              /\ all_incidents'[r] = <<>>
              /\ processed_ids' = processed_ids]_vars

\* process_chat has returned the zero result for a chat whose messages with
\* text or voice are all marked already.
C12_Witness ==
    \E r \in Runs :
        /\ pc[r] = "store"
        /\ ValidMessages(messages[r]) # <<>>
        /\ valid_messages[r] = <<>>
        /\ WorkingSet(r) = <<>>
        /\ chunk_log[r] = <<>>
        /\ result[r] = <<EmptyResult(chat_ids[chat_i[r]])>>

\* Cycle r is inside the loop over chat_ids.
InChatLoop(r) == pc[r] \in {"collect", "filter", "classify", "mark", "store"}

InChatLoopNext(r) == pc'[r] \in {"collect", "filter", "classify", "mark", "store"}

\* The step in which the processing of the chat of cycle r ends without a
\* result: the collector failed or an exception left run_single_chat.
ChatFailedStep(r) ==
    /\ InChatLoop(r)
    /\ pc'[r] \in {"collect", "aggregate"}
    /\ <<pc'[r], chat_i'[r]>> # <<pc[r], chat_i[r]>>
    /\ chat_results'[r] = chat_results[r]

\* C13: a failure while processing one chat ends that chat only: the cycle
\* goes on with the next chat of chat_ids, or with the aggregation after the
\* last one; the aggregation starts only after every chat was taken up, and
\* from then on the cycle goes step by step to the update of the run record
\* unless its task is cancelled.
C13_ChatFailureAbortsOnlyThatChat ==
    [][\A r \in Runs :
          /\ ChatFailedStep(r) =>
                IF chat_i[r] < Len(chat_ids)
                THEN pc'[r] = "collect" /\ chat_i'[r] = chat_i[r] + 1
                ELSE pc'[r] = "aggregate"
          /\ (~InChatLoop(r) /\ InChatLoopNext(r)) => (pc[r] = "create_log" /\ chat_i'[r] = 1)
          /\ (InChatLoop(r) /\ ~InChatLoopNext(r)) =>
                \/ pc'[r] = "cancelled"
                \/ pc'[r] = "aggregate" /\ chat_i[r] = Len(chat_ids)
          /\ (InChatLoop(r) /\ InChatLoopNext(r)) => chat_i'[r] \in {chat_i[r], chat_i[r] + 1}
          /\ (pc[r] \in {"aggregate", "notify", "forward"} /\ pc'[r] # pc[r]) =>
                pc'[r] \in {"notify", "forward", "finalize", "cancelled"}
          /\ (pc[r] = "finalize" /\ pc'[r] # pc[r]) => pc'[r] \in {"done", "cancelled"}]_vars

\* A cycle that lost every chat and is at the update of its run record.
C13_Witness ==
    \E r \in Runs :
        /\ pc[r] = "finalize"
        /\ chat_results[r] = <<>>
        /\ chat_i[r] = Len(chat_ids)
        /\ log_id[r] # NoLog

\* C18: in a cycle a pacing delay is performed between the end of the
\* processing of a chat and the start of the next chat, and none after the
\* last chat of chat_ids.
C18_PacingDelayBetweenChats ==
    [][\A r \in Runs :
          /\ (InChatLoop(r) /\ InChatLoopNext(r) /\ chat_i'[r] = chat_i[r] + 1) =>
                delays'[r] = delays[r] + 1
          /\ (InChatLoop(r) /\ pc'[r] = "aggregate") => delays'[r] = delays[r]]_vars

UserIdsOf(participants) == {participants[i].user_id : i \in DOMAIN participants}

\* C16: compare_with_whitelist returns a report for the given chat whose
\* missing entries are the expected ids that are not in the live roster, each
\* a bare id without profile, whose extra entries are the live ids that are
\* not expected, each an entry of the live roster, and in which no id occurs
\* in both lists or twice in one list.
C16_WhitelistReport ==
    probe.pc = "compared" =>
        LET report == probe.report[1]
            live == UserIdsOf(probe.participants)
            expected == Range(probe.whitelist)
        IN /\ report.chat_id = probe.chat_id
           /\ UserIdsOf(report.missing) = expected \ live
           /\ \A i \in DOMAIN report.missing : report.missing[i].username = None
           /\ UserIdsOf(report.extra) = live \ expected
           /\ \A i \in DOMAIN report.extra : report.extra[i] \in Range(probe.participants)
           /\ Len(report.missing) = Cardinality(UserIdsOf(report.missing))
           /\ Len(report.extra) = Cardinality(UserIdsOf(report.extra))
           /\ UserIdsOf(report.missing) \cap UserIdsOf(report.extra) = {}

\* A report with a missing id and an extra user that carries a profile, for
\* a whitelist that names an id twice.
C16_Witness ==
    /\ probe.pc = "compared"
    /\ Len(probe.report[1].missing) = 1
    /\ Len(probe.report[1].extra) >= 1
    /\ probe.report[1].extra[1].username # None
    /\ Len(probe.whitelist) > Cardinality(Range(probe.whitelist))

\* The number of incidents of a severity in one chat result.
SeverityCount(res, severity) ==
    Len(SelectSeq(res.incidents, LAMBDA inc : inc.severity = severity))

\* The totals over a list of chat results, taken one result at a time.
RECURSIVE Tally(_)
Tally(results) ==
    IF results = <<>>
    THEN [messages |-> 0, voices |-> 0, critical |-> 0, high |-> 0, medium |-> 0,
          low |-> 0, missing |-> <<>>, extra |-> <<>>]
    ELSE LET t == Tally(SubSeq(results, 1, Len(results) - 1))
             last == results[Len(results)]
             pr == last.participant_report
         IN [messages |-> t.messages + last.messages_analyzed,
             voices |-> t.voices + last.voices_transcribed,
             critical |-> t.critical + SeverityCount(last, "critical"),
             high |-> t.high + SeverityCount(last, "high"),
             medium |-> t.medium + SeverityCount(last, "medium"),
             low |-> t.low + SeverityCount(last, "low"),
             missing |-> t.missing \o (IF pr = None THEN <<>> ELSE UserIdList(pr[1].missing)),
             extra |-> t.extra \o (IF pr = None THEN <<>> ELSE UserIdList(pr[1].extra))]

\* C15: aggregate_results returns the sums of messages_analyzed and of
\* voices_transcribed, the number of results, the number of incidents of each
\* severity over all chats, total_incidents as the sum of the four, the
\* missing and extra counts as the summed lengths of the participant reports'
\* lists, and missing_ids and extra_ids as the user ids of those lists in chat
\* order.
C15_AggregateTotals ==
    probe.pc = "aggregated" =>
        LET report == probe.report[1]
            t == Tally(probe.results)
        IN /\ report.total_messages = t.messages
           /\ report.total_voices = t.voices
           /\ report.chats_scanned = Len(probe.results)
           /\ report.critical_incidents = t.critical
           /\ report.high_incidents = t.high
           /\ report.medium_incidents = t.medium
           /\ report.low_incidents = t.low
           /\ report.total_incidents = t.critical + t.high + t.medium + t.low
           /\ report.missing_participants = Len(t.missing)
           /\ report.extra_participants = Len(t.extra)
           /\ report.missing_ids = t.missing
           /\ report.extra_ids = t.extra

\* The example of the design: incidents [critical, low] and [high] over two
\* chats, the first without and the second with a participant report.
C15_Witness ==
    /\ probe.pc = "aggregated"
    /\ Len(probe.results) = 2
    /\ probe.results[1].participant_report = None
    /\ probe.results[2].participant_report # None
    /\ probe.report[1].total_messages = 6
    /\ probe.report[1].critical_incidents = 1
    /\ probe.report[1].high_incidents = 1
    /\ probe.report[1].medium_incidents = 0
    /\ probe.report[1].low_incidents = 1
    /\ probe.report[1].missing_ids = <<3, 1>>
    /\ probe.report[1].extra_ids = <<2>>

\* C17: update_incident_status called with an incident id that does not
\* exist fails with a not-found error and leaves the incidents table
\* unchanged (the database itself being available).
C17_UnknownIdFailsNotFound ==
    (/\ probe.last.op = "update_incident_status"
     /\ probe.last.outcome # "database_error"
     /\ probe.last.incident_id \notin DOMAIN probe.last.before)
        => /\ probe.last.outcome = "not_found"
           /\ probe.table = probe.last.before

\* The step in which run_single_chat, past process_chat, ends for cycle r.
StoreStep(r) == pc[r] = "store" /\ pc'[r] \in {"collect", "aggregate"}

\* C14: save_messages completes before process_chat starts, so every message
\* submitted to the classifier already has its raw row stored, and the rows
\* stored stay in place whatever the analysis does.
C14_SubmittedMessagesStored ==
    /\ [](\A r \in Runs :
            pc[r] = "mark" =>
                \A i \in DOMAIN Chunks(r)[ChunkIndex(r)] :
                    <<chat_ids[chat_i[r]], Chunks(r)[ChunkIndex(r)][i].message_id>>
                        \in probe.rows)
    /\ [][probe.rows \subseteq probe'.rows]_vars

\* C19: for every chat whose analysis produced incidents, one notification is
\* attempted for each incident of severity high or critical and none for the
\* others, before the next chat is processed; the chat yields its result and
\* the cycle goes on, whichever dispatch failed.
C19_AlertPerAlertableIncident ==
    [][\A r \in Runs :
          (StoreStep(r) /\ result[r][1].incidents # <<>>) =>
              LET incs == result[r][1].incidents
                  alerts == probe'.tail.alerts
              IN /\ probe'.tail.chat_id = chat_ids[chat_i[r]]
                 /\ \A i \in DOMAIN incs :
                       Cardinality({k \in DOMAIN alerts :
                                       alerts[k].message_id = incs[i].message_id})
                           = IF incs[i].severity \in {"high", "critical"} THEN 1 ELSE 0
                 /\ Len(chat_results'[r]) = Len(chat_results[r]) + 1
                 /\ pc'[r] = PcAfterChat(chat_i[r])]_vars

C21_HealthAlertIffUnhealthy ==
    probe.pc = "returned" =>
        /\ (probe.alert # "none") <=> (\E c \in Range(Checks) : probe.outcome[c] # "ok")
        /\ \A c \in Range(Checks) :
              probe.outcome[c] = "raises" => \E i \in DOMAIN probe.errors : probe.errors[i] = c
        /\ \A i \in DOMAIN probe.errors : probe.outcome[probe.errors[i]] # "ok"

\* The bot check raised, the others are healthy, and the alert could not be
\* sent: run has returned.
C21_Witness ==
    /\ probe.pc = "returned"
    /\ probe.outcome = [c \in Range(Checks) |-> IF c = "bot" THEN "raises" ELSE "ok"]
    /\ probe.alert = "send_failed"
    /\ probe.errors = <<"bot">>

\* C22: the external call of every check is bounded by a timeout, so run
\* always terminates and reports the outcome of the other checks, also when
\* the external call of one check hangs forever.
C22_HealthRunTerminates == (probe.pc = "gather") ~> (probe.pc = "returned")

\* An entry the parser has nothing to object to but, possibly, the range of
\* its confidence.
EnumsValid(inc_data) ==
    /\ inc_data.category \in IncidentCategories
    /\ inc_data.severity \in Severities
    /\ inc_data.confidence # None

Clamp(c) == IF c < 0 THEN 0 ELSE IF c > 10 THEN 10 ELSE c

\* C23: an incident returned with a confidence outside [0,1] is kept with its
\* confidence clamped to the nearest bound, and every incident of a result
\* has a confidence within [0,1].
C23_ConfidenceClamped ==
    probe.analysis.outcome = "returned" =>
        LET entries == SelectSeq(probe.response.incidents, EnumsValid)
            incs == probe.analysis.incidents
        IN /\ Len(incs) = Len(entries)
           /\ \A i \in DOMAIN incs :
                 /\ incs[i].message_id = entries[i].message_id
                 /\ incs[i].confidence = Clamp(entries[i].confidence[1])
                 /\ incs[i].confidence >= 0 /\ incs[i].confidence <= 10

\* An entry that passes every check of the parser.
Acceptable(inc_data) ==
    /\ EnumsValid(inc_data)
    /\ inc_data.confidence[1] >= 0
    /\ inc_data.confidence[1] <= 10

OutsideEnums(inc_data) ==
    inc_data.category \notin IncidentCategories \/ inc_data.severity \notin Severities

C25_SenderEnrichment ==
    probe.pc = "returned" =>
        LET incs == probe.analysis.incidents
            res == probe.result[1].incidents
        IN /\ Len(res) = Len(incs)
           /\ \A i \in DOMAIN res :
                 /\ res[i].message_id = incs[i].message_id
                 /\ \A j \in DOMAIN ResponseMessages :
                       ResponseMessages[j].message_id = res[i].message_id
                           => res[i].sender_id = ResponseMessages[j].sender_id
                 /\ (\A j \in DOMAIN ResponseMessages :
                        ResponseMessages[j].message_id # res[i].message_id)
                           => res[i].sender_id = NoSender

\* One incident for a message of the working set and one for a message
\* outside it: both are in the result, the first with its sender.
C25_Witness ==
    /\ probe.pc = "returned"
    /\ Len(probe.result[1].incidents) = 2
    /\ probe.result[1].incidents[1].message_id = MaxMsgId
    /\ probe.result[1].incidents[1].sender_id = 10 + MaxMsgId
    /\ probe.result[1].incidents[2].message_id = MaxMsgId + 1
    /\ probe.result[1].incidents[2].sender_id = NoSender

\* C26: a message is left marked processed only if the incidents of its chunk
\* have been stored: when save_incidents fails for a chat, no message of that
\* chat is marked processed (the store of markers was empty when the cycle
\* began).
C26_MarkedOnlyIfIncidentsStored ==
    probe.tail.outcome = "save_incidents_failed" =>
        \A mid \in MsgIdsOf(probe.tail.chat_id) :
            <<probe.tail.chat_id, mid>> \notin processed_ids

\* C27: every incident in the result of process_chat comes from a chunk whose
\* messages were marked processed in that call: the incidents of a chunk
\* whose mark_as_processed failed are not part of the result.
C27_ResultIncidentsFromMarkedChunks ==
    \A r \in Runs :
        (pc[r] = "store" /\ result[r] # None) =>
            \A k \in DOMAIN chunk_log[r] :
                chunk_log[r][k].outcome # "ok" =>
                    \A i \in DOMAIN chunk_log[r][k].incidents :
                        \A j \in DOMAIN result[r][1].incidents :
                            result[r][1].incidents[j].message_id
                                # chunk_log[r][k].incidents[i].message_id

\* C28: messages_analyzed in the result of process_chat is the number of
\* messages whose chunk was classified successfully; the messages of a chunk
\* whose classification failed are not counted.
C28_MessagesAnalyzedCountsClassified ==
    \A r \in Runs :
        (pc[r] = "store" /\ result[r] # None) =>
            result[r][1].messages_analyzed
                = SumSeq([k \in DOMAIN chunk_log[r] |->
                             IF chunk_log[r][k].outcome = "classify_failed"
                             THEN 0 ELSE Len(Chunks(r)[k])])

\* C29: whenever aggregation succeeded, run goes on to append_scan_log, also
\* when the summary notification fails.
C29_AggregatedRecordForwarded ==
    [][\A r \in Runs :
          (pc[r] = "notify" /\ pc'[r] \notin {"notify", "cancelled"})
              => pc'[r] = "forward"]_vars

\* C30: a confirm or false-positive callback sent by a user other than the
\* configured admin leaves the incidents table unchanged.
C30_OnlyAdminChangesStatus ==
    (probe.last.op = "handle_incident_action" /\ probe.last.user # AdminId)
        => probe.table = probe.last.before

====
